---------------------------- MODULE Spec2Model ----------------------------
(***************************************************************************)
(* Recruitment dashboard (src/script.js): the loading of the snapshot and  *)
(* the analytics functions computed from it.                               *)
(*                                                                         *)
(* JavaScript numbers are IEEE 754 binary64 values.  Integer quantities    *)
(* (lengths, counts, millisecond differences) are kept as TLA+ integers;   *)
(* every quotient and product the code forms with / and * is computed as   *)
(* a binary64 value: a 53-bit significand, rounded to nearest, ties to     *)
(* even.  The exponent range is not bounded (no overflow, no subnormals:   *)
(* the magnitudes here lie between 2^-40 and 2^40) and -0 is kept as 0.    *)
(***************************************************************************)
EXTENDS Integers, Sequences, FiniteSets, TLC

(***************************************************************************)
(* JavaScript Number                                                       *)
(***************************************************************************)

\* Bits of a binary64 significand.
SignificandBits == 53

NaN == [k |-> "nan", neg |-> FALSE, m |-> << >>, e |-> 0]

Infinity(neg) == [k |-> "inf", neg |-> neg, m |-> << >>, e |-> 0]

Zero == [k |-> "zero", neg |-> FALSE, m |-> << >>, e |-> 0]

\* (-1)^neg * 1.m[2]m[3]...m[53] * 2^e, with m[1] = 1.
Finite(neg, m, e) == [k |-> "fin", neg |-> neg, m |-> m, e |-> e]

IsFinite(x) == x.k \in {"fin", "zero"}

Abs(n) == IF n < 0 THEN -n ELSE n

Max(a, b) == IF a >= b THEN a ELSE b

Min(a, b) == IF a <= b THEN a ELSE b

Zeros(n) == [i \in 1..n |-> 0]

Pow2(n) == 2 ^ n

\* The number of binary digits of n > 0 (n < 2^30).
BitLength(n) == CHOOSE l \in 1..30 : Pow2(l - 1) <= n /\ n < Pow2(l)

\* The binary digits of n > 0, most significant first.
IntBits(n) ==
    LET l == BitLength(n) IN [i \in 1..l |-> (n \div Pow2(l - i)) % 2]

\* The natural number that bits lo..hi of b (most significant first) denote.
RECURSIVE BitsRange(_, _, _)
BitsRange(b, lo, hi) ==
    IF lo > hi THEN 0
    ELSE IF lo = hi THEN b[lo]
    ELSE LET mid == (lo + hi) \div 2
         IN  BitsRange(b, lo, mid) * Pow2(hi - mid) + BitsRange(b, mid + 1, hi)

BitsInt(b) == BitsRange(b, 1, Len(b))

\* b without its leading zeros (<< >> when b is all zeros).
StripLeading(b) ==
    IF \A i \in 1..Len(b) : b[i] = 0 THEN << >>
    ELSE LET f == CHOOSE i \in 1..Len(b) :
                      b[i] = 1 /\ \A h \in 1..(i - 1) : b[h] = 0
         IN  SubSeq(b, f, Len(b))

\* b without its trailing zeros.
StripTrailing(b) ==
    IF \A i \in 1..Len(b) : b[i] = 0 THEN << >>
    ELSE LET l == CHOOSE i \in 1..Len(b) :
                      b[i] = 1 /\ \A h \in (i + 1)..Len(b) : b[h] = 0
         IN  SubSeq(b, 1, l)

\* b + 1 on a bit sequence that is not all ones.
Increment(b) ==
    LET j == CHOOSE i \in 1..Len(b) :
                 b[i] = 0 /\ \A h \in (i + 1)..Len(b) : b[h] = 1
    IN  [i \in 1..Len(b) |-> IF i < j THEN b[i] ELSE IF i = j THEN 1 ELSE 0]

\* Round to nearest, ties to even: the binary64 value nearest to
\* (-1)^neg * 1.b[2]b[3]... * 2^e (b[1] = 1, any length), where sticky says
\* that the exact value lies strictly above the one b denotes.
RoundNearestEven(neg, b, e, sticky) ==
    IF Len(b) <= SignificandBits
    THEN Finite(neg, b \o Zeros(SignificandBits - Len(b)), e)
    ELSE LET top   == SubSeq(b, 1, SignificandBits)
             guard == b[SignificandBits + 1]
             rest  == sticky \/ \E i \in (SignificandBits + 2)..Len(b) : b[i] = 1
             up    == guard = 1 /\ (rest \/ top[SignificandBits] = 1)
         IN  IF ~up THEN Finite(neg, top, e)
             ELSE IF \A i \in 1..SignificandBits : top[i] = 1
                  THEN Finite(neg, <<1>> \o Zeros(SignificandBits - 1), e + 1)
                  ELSE Finite(neg, Increment(top), e)

\* An integer as a Number (exact: |n| < 2^30 here).
FromInt(n) ==
    IF n = 0 THEN Zero
    ELSE LET b == IntBits(Abs(n))
         IN  RoundNearestEven(n < 0, b, Len(b) - 1, FALSE)

\* A finite nonzero Number as odd * 2^shift, the odd part a TLA+ integer
\* (the divisors and factors of this program are counts, lengths and the
\* literals 100, 0.5 and 1000 * 60 * 60 * 24).
OddPart(x) == BitsInt(StripTrailing(x.m))

OddShift(x) == x.e - (Len(StripTrailing(x.m)) - 1)

\* The w binary digits of v < 2^w.
FixedBits(v, w) == [j \in 1..w |-> (v \div Pow2(w - j)) % 2]

\* Long division of the bit sequence num by d, w bits a step (d * 2^w fits
\* an integer): the quotient's bits after steps 1..i and the remainder left.
RECURSIVE LongDivision(_, _, _, _)
LongDivision(num, d, w, i) ==
    IF i = 0 THEN [q |-> << >>, r |-> 0]
    ELSE LET prev == LongDivision(num, d, w, i - 1)
             in   == BitsRange(num, (i - 1) * w + 1, i * w)
             t    == prev.r * Pow2(w) + in
         IN  [q |-> prev.q \o FixedBits(t \div d, w), r |-> t % d]

\* x / y, the divisor with a small odd part.
Div(x, y) ==
    IF x.k = "nan" \/ y.k = "nan" THEN NaN
    ELSE IF x.k = "inf"
         THEN IF y.k = "inf" THEN NaN ELSE Infinity(x.neg # y.neg)
    ELSE IF y.k = "inf" THEN Zero
    ELSE IF y.k = "zero"
         THEN IF x.k = "zero" THEN NaN ELSE Infinity(x.neg)
    ELSE IF x.k = "zero" THEN Zero
    ELSE LET d      == OddPart(y)
             w      == 30 - BitLength(d)
             \* enough zeros for 55 quotient bits, to a whole number of steps
             steps  == ((SignificandBits + BitLength(d) + 2) \div w) + 1
             z      == steps * w - SignificandBits
             res    == LongDivision(x.m \o Zeros(z), d, w, steps)
             q      == StripLeading(res.q)
         IN  RoundNearestEven(x.neg # y.neg, q,
                              (Len(q) - 1) + x.e - (SignificandBits - 1) - z
                                  - OddShift(y),
                              res.r # 0)

\* a + b on bit sequences of one length n (carry look-ahead): n + 1 bits.
AddBits(a, b) ==
    LET n == Len(a)
        carry(i) == \E j \in (i + 1)..n :
                        /\ a[j] = 1 /\ b[j] = 1
                        /\ \A h \in (i + 1)..(j - 1) : a[h] + b[h] = 1
    IN  [i \in 1..(n + 1) |->
            IF i = 1 THEN (IF carry(0) THEN 1 ELSE 0)
            ELSE (a[i - 1] + b[i - 1] + (IF carry(i - 1) THEN 1 ELSE 0)) % 2]

\* a - b on bit sequences of one length n (a >= b): n bits.
SubBits(a, b) ==
    LET n == Len(a)
        borrow(i) == \E j \in (i + 1)..n :
                         /\ a[j] = 0 /\ b[j] = 1
                         /\ \A h \in (i + 1)..(j - 1) : a[h] = b[h]
    IN  [i \in 1..n |-> (2 + a[i] - b[i] - (IF borrow(i) THEN 1 ELSE 0)) % 2]

\* m * c on the bit sequence m, w bits a step from the right (c * 2^w fits
\* an integer): the product's low bits after steps 1..i and the carry left.
RECURSIVE TimesChunks(_, _, _, _)
TimesChunks(m, c, w, i) ==
    IF i = 0 THEN [bits |-> << >>, carry |-> 0]
    ELSE LET prev == TimesChunks(m, c, w, i - 1)
             in   == BitsRange(m, Max(1, Len(m) - i * w + 1), Len(m) - (i - 1) * w)
             t    == in * c + prev.carry
         IN  [bits |-> FixedBits(t % Pow2(w), w) \o prev.bits,
              carry |-> t \div Pow2(w)]

\* The bits of (the natural number m denotes) * c, for 0 < c < 2^22.
TimesSmall(m, c) ==
    LET w     == 30 - BitLength(c)
        steps == ((Len(m) - 1) \div w) + 1
        res   == TimesChunks(m, c, w, steps)
    IN  StripLeading(FixedBits(res.carry, BitLength(c)) \o res.bits)

\* x * y, the factor y with a small odd part.
Mul(x, y) ==
    IF x.k = "nan" \/ y.k = "nan" THEN NaN
    ELSE IF x.k = "inf" \/ y.k = "inf"
         THEN IF x.k = "zero" \/ y.k = "zero" THEN NaN
              ELSE Infinity(x.neg # y.neg)
    ELSE IF x.k = "zero" \/ y.k = "zero" THEN Zero
    ELSE LET p == TimesSmall(x.m, OddPart(y))
         IN  RoundNearestEven(x.neg # y.neg, p,
                              (Len(p) - 1) + x.e - (SignificandBits - 1)
                                  + OddShift(y),
                              FALSE)

\* a < b on bit sequences of one length, as natural numbers.
LexLess(a, b) ==
    \E i \in 1..Len(a) : a[i] < b[i] /\ \A h \in 1..(i - 1) : a[h] = b[h]

\* |x| < |y| for finite nonzero x, y.
MagLess(x, y) == x.e < y.e \/ (x.e = y.e /\ LexLess(x.m, y.m))

\* x < y (false when either is NaN).
Less(x, y) ==
    IF x.k = "nan" \/ y.k = "nan" THEN FALSE
    ELSE IF x = y THEN FALSE
    ELSE IF x.k = "inf" THEN x.neg
    ELSE IF y.k = "inf" THEN ~y.neg
    ELSE IF x.k = "zero" THEN ~y.neg
    ELSE IF y.k = "zero" THEN x.neg
    ELSE IF x.neg # y.neg THEN x.neg
    ELSE IF x.neg THEN MagLess(y, x) ELSE MagLess(x, y)

\* x + y
Add(x, y) ==
    IF x.k = "nan" \/ y.k = "nan" THEN NaN
    ELSE IF x.k = "inf"
         THEN IF y.k = "inf" /\ x.neg # y.neg THEN NaN ELSE x
    ELSE IF y.k = "inf" THEN y
    ELSE IF x.k = "zero" THEN y
    ELSE IF y.k = "zero" THEN x
    ELSE LET lo == Min(x.e, y.e)
             hi == Max(x.e, y.e)
             n  == SignificandBits + (hi - lo)
             xs == Zeros(hi - x.e) \o x.m \o Zeros(x.e - lo)
             ys == Zeros(hi - y.e) \o y.m \o Zeros(y.e - lo)
         IN  IF x.neg = y.neg
             THEN LET s == StripLeading(AddBits(xs, ys))
                  IN  RoundNearestEven(x.neg, s, hi + (Len(s) - n), FALSE)
             ELSE IF xs = ys THEN Zero
             ELSE LET xless == MagLess(x, y)
                      d     == StripLeading(IF xless THEN SubBits(ys, xs)
                                                     ELSE SubBits(xs, ys))
                  IN  RoundNearestEven(IF xless THEN y.neg ELSE x.neg, d,
                                       hi - (n - Len(d)), FALSE)

\* Number.prototype.toFixed(f) for |x| < 2^20: the decimal string of the
\* integer n nearest to x * 10^f (the larger n of two equally near), with a
\* point before its last f digits.
Decimal(n, f) ==
    LET p == 10 ^ f
        frac == n % p
    IN  ToString(n \div p) \o "."
          \o (IF f = 2 /\ frac < 10 THEN "0" ELSE "") \o ToString(frac)

ToFixed(x, f) ==
    IF x.k = "nan" THEN "NaN"
    ELSE IF x.k = "inf" THEN (IF x.neg THEN "-Infinity" ELSE "Infinity")
    ELSE IF x.k = "zero" THEN Decimal(0, f)
    ELSE LET p    == TimesSmall(x.m, 10 ^ f)
             \* x * 10^f = p * 2^(-frac): frac bits after the binary point
             frac == (SignificandBits - 1) - x.e
             int  == Len(p) - frac
             n    == IF int < 0 THEN 0
                     ELSE BitsRange(p, 1, int) + p[int + 1]
         IN  (IF x.neg THEN "-" ELSE "") \o Decimal(n, f)

(***************************************************************************)
(* The snapshot (recruitment_data.json)                                    *)
(***************************************************************************)

\* A field that is null or absent (JavaScript null and undefined).
Null == "<null>"

\* JavaScript truthiness of a string-valued or absent field.
Truthy(v) == v # Null /\ v # ""

MsPerDay == 1000 * 60 * 60 * 24

\* new Date(s) for the date strings of the model, in milliseconds from
\* 2024-01-01T00:00:00Z (only differences of dates are used).
DateMs ==
    [s \in {"2024-01-01", "2024-01-02T08:00:00Z", "2024-01-03", "2024-01-05"} |->
        CASE s = "2024-01-01"           -> 0
          [] s = "2024-01-02T08:00:00Z" -> MsPerDay + 8 * 60 * 60 * 1000
          [] s = "2024-01-03"           -> 2 * MsPerDay
          [] s = "2024-01-05"           -> 4 * MsPerDay]

NewDate(s) == DateMs[s]

\* Array.prototype.filter(...).length
Count(s, Test(_)) == Len(SelectSeq(s, Test))

(***************************************************************************)
(* Key metrics                                                             *)
(***************************************************************************)

calculateConversionFunnel(dd) ==
    LET details     == dd.applicationDetails
        total       == Len(details)
        viewed      == Count(details, LAMBDA d : Truthy(d["Viewed By"]))
        interviewed == Count(details, LAMBDA d : Truthy(d["Interview Date"]))
        offered     == Count(details, LAMBDA d : Truthy(d["Offer Date"]))
        hired       == Count(details, LAMBDA d : Truthy(d["Hire Date"]))
    IN  [applications  |-> total,
         viewed        |-> viewed,
         viewedRate    |-> Div(FromInt(viewed), FromInt(total)),
         interviewed   |-> interviewed,
         interviewRate |-> Div(FromInt(interviewed), FromInt(total)),
         offered       |-> offered,
         offerRate     |-> Div(FromInt(offered), FromInt(total)),
         hired         |-> hired,
         hireRate      |-> Div(FromInt(hired), FromInt(total))]

\* validRecords.reduce((sum, record) => sum + days, 0) over the first n.
RECURSIVE TotalDays(_, _, _, _)
TotalDays(validRecords, startField, endField, n) ==
    IF n = 0 THEN Zero
    ELSE LET record == validRecords[n]
             start  == NewDate(record[startField])
             end    == NewDate(record[endField])
             days   == Div(FromInt(end - start), FromInt(MsPerDay))
         IN  Add(TotalDays(validRecords, startField, endField, n - 1), days)

\* The average with the sum divided by the number of all records.
calculateAverageDaysOfAll(data, startField, endField) ==
    LET validRecords ==
            SelectSeq(data, LAMBDA d : Truthy(d[startField]) /\ Truthy(d[endField]))
    IN  IF Len(validRecords) = 0 THEN Zero
        ELSE Div(TotalDays(validRecords, startField, endField, Len(validRecords)),
                 FromInt(Len(data)))

calculateAverageDays(data, startField, endField) ==
    LET validRecords ==
            SelectSeq(data, LAMBDA d : Truthy(d[startField]) /\ Truthy(d[endField]))
    IN  IF Len(validRecords) = 0 THEN Zero
        ELSE Div(TotalDays(validRecords, startField, endField, Len(validRecords)),
                 FromInt(Len(validRecords)))

calculateTimeMetrics(dd) ==
    LET details == dd.applicationDetails
    IN  [appToView        |-> calculateAverageDays(details, "Application Date", "Viewed Date"),
         viewToInterview  |-> calculateAverageDays(details, "Viewed Date", "Interview Date"),
         interviewToOffer |-> calculateAverageDays(details, "Interview Date", "Offer Date"),
         appToOffer       |-> calculateAverageDays(details, "Application Date", "Offer Date")]

Percent(x) == ToFixed(Mul(x, FromInt(100)), 1) \o "%"

\* The texts updateKeyMetrics writes, from the values it computed.
updateKeyMetrics(funnel, timeMetrics) ==
        [totalApplications |-> ToString(funnel.applications),
         viewedRate        |-> Percent(funnel.viewedRate),
         interviewRate     |-> Percent(funnel.interviewRate),
         offerRate         |-> Percent(funnel.offerRate),
         hireRate          |-> Percent(funnel.hireRate),
         avgTimeToOffer    |-> ToFixed(timeMetrics.appToOffer, 1) \o " days"]

(***************************************************************************)
(* Pipeline breakdown                                                      *)
(***************************************************************************)

\* The table with one label ("New") in two categories.
statusCategoriesOverlapping ==
    [earlyStage       |-> {"New", "Initial Contact Attempted",
                           "2nd Contact Attempted", "3rd Contact Attempted"},
     activeEngagement |-> {"In Communication", "Interview Scheduled",
                           "Interview Cancelled"},
     advancedStage    |-> {"Sent Documents", "Documents Signed"},
     closed           |-> {"Not Qualified", "No Offer Made", "Sent Application", "New"}]

statusCategories ==
    [earlyStage       |-> {"New", "Initial Contact Attempted",
                           "2nd Contact Attempted", "3rd Contact Attempted"},
     activeEngagement |-> {"In Communication", "Interview Scheduled",
                           "Interview Cancelled"},
     advancedStage    |-> {"Sent Documents", "Documents Signed"},
     closed           |-> {"Not Qualified", "No Offer Made", "Sent Application"}]

\* statusData.reduce((sum, s) => sum + s.Applicants, 0) over the first n.
RECURSIVE SumApplicants(_, _)
SumApplicants(statusData, n) ==
    IF n = 0 THEN 0
    ELSE SumApplicants(statusData, n - 1) + statusData[n]["Applicants"]

CategoryEntry(statusData, statuses, total) ==
    LET in    == SelectSeq(statusData,
                           LAMBDA s : s["Application State"] \in statuses)
        count == SumApplicants(in, Len(in))
    IN  [count      |-> count,
         percentage |-> Mul(Div(FromInt(count), FromInt(total)), FromInt(100))]

\* The breakdown with the total taken over the listed statuses only.
calculatePipelineBreakdownOfListed(dd) ==
    LET statusData == SelectSeq(dd.applicantsByStatus,
                                LAMBDA s : \E key \in DOMAIN statusCategories :
                                    s["Application State"] \in statusCategories[key])
        total      == SumApplicants(statusData, Len(statusData))
    IN  [key \in DOMAIN statusCategories |->
            CategoryEntry(statusData, statusCategories[key], total)]

calculatePipelineBreakdown(dd) ==
    LET statusData == dd.applicantsByStatus
        total      == SumApplicants(statusData, Len(statusData))
    IN  [key \in DOMAIN statusCategories |->
            CategoryEntry(statusData, statusCategories[key], total)]

\* The stages updatePipelineBreakdown renders, from the breakdown it computed
\* (the width of each bar, the percentage's default string, is left out).
updatePipelineBreakdown(pipeline) ==
    LET stages   == <<[key |-> "earlyStage", title |-> "Early Stage"],
                      [key |-> "activeEngagement", title |-> "Active Engagement"],
                      [key |-> "advancedStage", title |-> "Advanced Stage"],
                      [key |-> "closed", title |-> "Closed"]>>
    IN  [i \in 1..Len(stages) |->
            LET data == pipeline[stages[i].key]
            IN  [title      |-> stages[i].title,
                 count      |-> ToString(data.count),
                 percentage |-> ToFixed(data.percentage, 1) \o "% of pipeline"]]

(***************************************************************************)
(* Critical alerts                                                         *)
(***************************************************************************)

\* The zero-hires rule without its test of the offers.
ZeroHiresAnyOffers(funnel) == funnel.hired = 0 /\ funnel.offered >= 0

\* funnel.hired === 0 && funnel.offered > 0
ZeroHires(funnel) == funnel.hired = 0 /\ funnel.offered > 0

\* pipeline.advancedStage.percentage > 40
Bottleneck(pipeline) == Less(FromInt(40), pipeline.advancedStage.percentage)

\* The decline rule with <= for <.
VolumeDeclinedOrHalved(lastWeek, prevWeek) ==
    ~Less(Mul(FromInt(prevWeek), Div(FromInt(1), FromInt(2))), FromInt(lastWeek))

\* lastWeek < prevWeek * 0.5
VolumeDeclined(lastWeek, prevWeek) ==
    Less(FromInt(lastWeek), Mul(FromInt(prevWeek), Div(FromInt(1), FromInt(2))))

\* The stale jobs with >= for >.
StaleJobsFrom300(jobs) == SelectSeq(jobs, LAMBDA job : job["Days Open"] >= 300)

\* dashboardData.byTeamJob.filter(job => job['Days Open'] > 300)
StaleJobs(jobs) == SelectSeq(jobs, LAMBDA job : job["Days Open"] > 300)

identifyCriticalIssues(dd) ==
    LET funnel      == calculateConversionFunnel(dd)
        pipeline    == calculatePipelineBreakdown(dd)
        weeklyTrend == dd.applicationsOverTime
        n           == Len(weeklyTrend)
        lastWeek    == weeklyTrend[n]["CountDistinct of APPLICANT_ID"]
        prevWeek    == weeklyTrend[n - 1]["CountDistinct of APPLICANT_ID"]
        staleJobs   == StaleJobs(dd.byTeamJob)
        zeroHires ==
            IF ZeroHires(funnel)
            THEN <<[severity |-> "CRITICAL",
                    icon     |-> "alarm",
                    title    |-> "Zero Hires from Offers",
                    message  |-> ToString(funnel.offered)
                        \o " offers have been extended but 0 hires have been completed. Immediate action required to identify and resolve onboarding bottlenecks."]>>
            ELSE << >>
        bottleneck ==
            IF Bottleneck(pipeline)
            THEN <<[severity |-> "HIGH",
                    icon     |-> "warning",
                    title    |-> "Pipeline Bottleneck Detected",
                    message  |-> ToFixed(pipeline.advancedStage.percentage, 1)
                        \o "% of applications are stuck in the documentation stage. Review document requirements and candidate support processes."]>>
            ELSE << >>
        decline ==
            IF n >= 2
            THEN IF VolumeDeclined(lastWeek, prevWeek)
                 THEN <<[severity |-> "MEDIUM",
                         icon     |-> "chart",
                         title    |-> "Application Volume Decline",
                         message  |-> "Most recent week shows " \o ToString(lastWeek)
                             \o " application(s), down from " \o ToString(prevWeek)
                             \o ". Consider refreshing job postings or expanding sourcing channels."]>>
                 ELSE << >>
            ELSE << >>
        stale ==
            IF Len(staleJobs) > 0
            THEN <<[severity |-> "MEDIUM",
                    icon     |-> "clipboard",
                    title    |-> "Stale Job Postings",
                    message  |-> ToString(Len(staleJobs))
                        \o " job posting(s) have been open for over 300 days with minimal traction. Consider closing or refreshing these positions."]>>
            ELSE << >>
    IN  zeroHires \o bottleneck \o decline \o stale

\* severity.toLowerCase() for the severities the alerts carry
ToLowerCase(s) ==
    CASE s = "CRITICAL" -> "critical"
      [] s = "HIGH"     -> "high"
      [] s = "MEDIUM"   -> "medium"

\* The content displayCriticalAlerts gives the alerts section.
displayCriticalAlerts(alerts) ==
    IF Len(alerts) = 0
    THEN <<[class   |-> "alert alert-medium",
            icon    |-> "check",
            title   |-> "All Clear",
            message |-> "No critical issues identified in the pipeline."]>>
    ELSE [i \in 1..Len(alerts) |->
            [class   |-> "alert alert-" \o ToLowerCase(alerts[i].severity),
             icon    |-> alerts[i].icon,
             title   |-> alerts[i].title,
             message |-> alerts[i].message]]

showError(message) ==
    <<[class   |-> "alert alert-critical",
       icon    |-> "cross",
       title   |-> "Error Loading Dashboard",
       message |-> message]>>

(***************************************************************************)
(* Tables                                                                  *)
(***************************************************************************)

NewStats == [applications |-> 0, viewed |-> 0, interviewed |-> 0, offered |-> 0]

\* stats after the forEach has visited the first n records
RECURSIVE AccumulateStats(_, _)
AccumulateStats(details, n) ==
    IF n = 0 THEN [o \in {} |-> NewStats]
    ELSE LET prev  == AccumulateStats(details, n - 1)
             app   == details[n]
             owner == app["Job Owner"]
             stats == IF owner \in DOMAIN prev THEN prev
                      ELSE [o \in DOMAIN prev \cup {owner} |->
                               IF o = owner THEN NewStats ELSE prev[o]]
             s     == stats[owner]
         IN  [stats EXCEPT ![owner] =
                 [applications |-> s.applications + 1,
                  viewed       |-> s.viewed
                                     + (IF Truthy(app["Viewed By"]) THEN 1 ELSE 0),
                  interviewed  |-> s.interviewed
                                     + (IF Truthy(app["Interview Date"]) THEN 1 ELSE 0),
                  offered      |-> s.offered
                                     + (IF Truthy(app["Offer Date"]) THEN 1 ELSE 0)]]

\* The rate as a fraction, not a percentage.
RateAsFraction(count, applications) == Div(FromInt(count), FromInt(applications))

\* s.viewed / s.applications * 100
Rate(count, applications) ==
    Mul(Div(FromInt(count), FromInt(applications)), FromInt(100))

calculateRecruiterPerformance(dd) ==
    LET stats == AccumulateStats(dd.applicationDetails, Len(dd.applicationDetails))
    IN  [owner \in DOMAIN stats |->
            LET s == stats[owner]
            IN  [applications  |-> s.applications,
                 viewed        |-> s.viewed,
                 interviewed   |-> s.interviewed,
                 offered       |-> s.offered,
                 viewRate      |-> Rate(s.viewed, s.applications),
                 interviewRate |-> Rate(s.interviewed, s.applications),
                 offerRate     |-> Rate(s.offered, s.applications)]]

\* The values of field f in the records of s, each once, in the order of
\* first occurrence (the key order of an object filled in that order).
KeysInOrder(s, f) ==
    LET first == SelectSeq([i \in 1..Len(s) |-> i],
                           LAMBDA i : \A h \in 1..(i - 1) : s[h][f] # s[i][f])
    IN  [i \in 1..Len(first) |-> s[first[i]][f]]

\* The rows populateRecruiterPerformanceTable renders, from the stats it
\* computed: Object.entries(recruiterStats) in the order the keys were added.
populateRecruiterPerformanceTable(dd, recruiterStats) ==
    LET names          == KeysInOrder(dd.applicationDetails, "Job Owner")
    IN  [i \in 1..Len(names) |->
            LET stats == recruiterStats[names[i]]
            IN  <<names[i], ToString(stats.applications), ToString(stats.viewed),
                  ToString(stats.interviewed), ToString(stats.offered),
                  ToFixed(stats.viewRate, 1) \o "%",
                  ToFixed(stats.interviewRate, 1) \o "%",
                  ToFixed(stats.offerRate, 1) \o "%">>]

populateJobPerformanceTable(dd) ==
    LET jobs == dd.byTeamJob
    IN  [i \in 1..Len(jobs) |->
            LET job == jobs[i]
            IN  <<job["Job Name"], job["Job Owner"],
                  ToString(job["Total Applicants"]), ToString(job["Days Open"]),
                  ToFixed(Div(FromInt(job["Total Applicants"]),
                              FromInt(job["Days Open"])), 2)>>]

(***************************************************************************)
(* Header and charts                                                       *)
(***************************************************************************)

\* A Date: its time value, or an Invalid Date.
DateOf(ms) == [valid |-> TRUE, ms |-> ms]

InvalidDate == [valid |-> FALSE, ms |-> 0]

\* toLocaleDateString('en-US', ...) of the model's dates, in a UTC time zone.
MonthDay(ms) ==
    CASE ms < MsPerDay     -> "Jan 1"
      [] ms < 2 * MsPerDay -> "Jan 2"
      [] ms < 3 * MsPerDay -> "Jan 3"
      [] ms < 4 * MsPerDay -> "Jan 4"
      [] OTHER             -> "Jan 5"

formatDate(date) ==
    IF date.valid THEN MonthDay(date.ms) \o ", 2024" ELSE "Invalid Date"

formatWeek(weekString) == MonthDay(NewDate(weekString))

\* new Date(Math.min(...dates)) and new Date(Math.max(...dates)); of no
\* dates these are new Date(Infinity) and new Date(-Infinity).
updateHeader(dd) ==
    LET details == dd.applicationDetails
        dates   == {NewDate(details[i]["Application Date"]) : i \in 1..Len(details)}
        minDate == IF dates = {} THEN InvalidDate
                   ELSE DateOf(CHOOSE t \in dates : \A u \in dates : t <= u)
        maxDate == IF dates = {} THEN InvalidDate
                   ELSE DateOf(CHOOSE t \in dates : \A u \in dates : t >= u)
    IN  "Data Period: " \o formatDate(minDate) \o " - " \o formatDate(maxDate)

renderWeeklyTrendChart(dd) ==
    LET data == dd.applicationsOverTime
    IN  [labels |-> [i \in 1..Len(data) |-> formatWeek(data[i]["Week of APPLICATION_DATE"])],
         data   |-> [i \in 1..Len(data) |-> data[i]["CountDistinct of APPLICANT_ID"]]]

renderFunnelChart(dd) ==
    LET funnel == calculateConversionFunnel(dd)
    IN  [labels |-> <<"Applications", "Viewed", "Interviewed", "Offered", "Hired">>,
         data   |-> <<funnel.applications, funnel.viewed, funnel.interviewed,
                      funnel.offered, funnel.hired>>]

\* Array.prototype.sort((a, b) => b.Applicants - a.Applicants): descending
\* by count, elements of equal count in their former order (the sort is stable).
Sort(s) ==
    LET n == Len(s)
        perms == {p \in [1..n -> 1..n] : \A i, j \in 1..n : i # j => p[i] # p[j]}
        ok(p) == \A i, j \in 1..n : i < j =>
                     \/ s[p[i]]["Applicants"] > s[p[j]]["Applicants"]
                     \/ s[p[i]]["Applicants"] = s[p[j]]["Applicants"] /\ p[i] < p[j]
        q == CHOOSE p \in perms : ok(p)
    IN  [i \in 1..n |-> s[q[i]]]

\* The chart of the array, already sorted in place.
renderStatusChart(data) ==
    [labels |-> [i \in 1..Len(data) |-> data[i]["Application State"]],
     data   |-> [i \in 1..Len(data) |-> data[i]["Applicants"]]]

renderJobTypeChart(dd) ==
    LET details == dd.applicationDetails
        labels  == KeysInOrder(details, "Job Title")
    IN  [labels |-> labels,
         data   |-> [i \in 1..Len(labels) |->
                       Count(details, LAMBDA app : app["Job Title"] = labels[i])]]

(***************************************************************************)
(* The snapshots of the model                                              *)
(***************************************************************************)

MaxApplications == 3

MaxStatuses == 3

MaxApplicants == 2

MaxWeeks == 3

MaxJobs == 2

ApplicationRecord(title, owner, applied, viewedBy, viewedDate, interview, offer, hire) ==
    [f \in {"Job Title", "Job Owner", "Application Date", "Viewed By",
            "Viewed Date", "Interview Date", "Offer Date", "Hire Date"} |->
        CASE f = "Job Title"        -> title
          [] f = "Job Owner"        -> owner
          [] f = "Application Date" -> applied
          [] f = "Viewed By"        -> viewedBy
          [] f = "Viewed Date"      -> viewedDate
          [] f = "Interview Date"   -> interview
          [] f = "Offer Date"       -> offer
          [] f = "Hire Date"        -> hire]

StatusAggregate(state, applicants) ==
    [f \in {"Application State", "Applicants"} |->
        IF f = "Applicants" THEN applicants ELSE state]

WeeklyPoint(week, count) ==
    [f \in {"Week of APPLICATION_DATE", "CountDistinct of APPLICANT_ID"} |->
        IF f = "Week of APPLICATION_DATE" THEN week ELSE count]

JobAggregate(name, owner, total, daysOpen) ==
    [f \in {"Job Name", "Job Owner", "Total Applicants", "Days Open"} |->
        CASE f = "Job Name"         -> name
          [] f = "Job Owner"        -> owner
          [] f = "Total Applicants" -> total
          [] f = "Days Open"        -> daysOpen]

Snapshot(details, statuses, weeks, jobs) ==
    [applicationDetails   |-> details,
     applicantsByStatus   |-> statuses,
     applicationsOverTime |-> weeks,
     byTeamJob            |-> jobs]

\* The sequences of at most n elements of S.
SeqsUpTo(S, n) == UNION {[1..k -> S] : k \in 0..n}

\* The i-th smallest element of a set of integers.
Nth(S, i) == CHOOSE x \in S : Cardinality({y \in S : y < x}) = i - 1

\* Status labels of the snapshots: listed ones of three categories, two of
\* them of one category, and one ("Hired") that no category lists.
StatusLabels ==
    <<"New", "Sent Documents", "Documents Signed", "Not Qualified", "Hired">>

\* Status aggregates: each label at most once, in the order of StatusLabels.
StatusLists ==
    UNION {{[i \in 1..Cardinality(S) |->
                StatusAggregate(StatusLabels[Nth(S, i)], c[i])] :
            c \in [1..Cardinality(S) -> 0..MaxApplicants]} :
           S \in {T \in SUBSET (1..Len(StatusLabels)) : Cardinality(T) <= MaxStatuses}}

Application(owner, viewedBy, viewedDate, interview, offer, hire) ==
    ApplicationRecord(IF owner = "Ana" THEN "Caregiver" ELSE "Nurse", owner,
                      "2024-01-01", viewedBy, viewedDate, interview, offer, hire)

\* Applications at the stages of the lifecycle, and two with a later stage's
\* field but not the earlier ones.
StagedRecords ==
    {Application("Ana", Null, Null, Null, Null, Null),
     Application("Ana", "Ana", "2024-01-03", "", Null, Null),
     Application("Ana", "", Null, Null, "2024-01-05", Null),
     Application("Ana", "Ben", "2024-01-03", "2024-01-03", "2024-01-05", "2024-01-05"),
     Application("Ben", "Ben", "2024-01-03", "2024-01-03", "", Null),
     Application("Ben", "Ben", "2024-01-03", "2024-01-03", "2024-01-05", ""),
     Application("Ben", Null, Null, Null, Null, "2024-01-05")}

\* Applications that differ in their dates: with and without each endpoint,
\* whole and fractional days apart, in and out of order.
DatedRecords ==
    {ApplicationRecord("Nurse", "Ana", "2024-01-01", Null, Null, Null, "2024-01-05", Null),
     ApplicationRecord("Nurse", "Ana", "2024-01-01", Null, Null, Null, Null, Null),
     ApplicationRecord("Nurse", "Ana", "2024-01-01", "Ana", "2024-01-03", "2024-01-05", "", Null),
     ApplicationRecord("Nurse", "Ana", "2024-01-03", "Ana", "2024-01-03", "2024-01-05",
                       "2024-01-02T08:00:00Z", Null),
     ApplicationRecord("Nurse", "Ana", "2024-01-01", "Ana", "2024-01-02T08:00:00Z",
                       "2024-01-03", "2024-01-05", Null)}

SomeDetails ==
    <<Application("Ana", "Ana", "2024-01-03", "2024-01-03", "2024-01-05", "2024-01-05")>>

SomeStatuses == <<StatusAggregate("New", 3), StatusAggregate("Sent Documents", 1)>>

SomeWeeks == <<WeeklyPoint("2024-01-01", 4)>>

SomeJobs == <<JobAggregate("Caregiver", "Ana", 12, 30)>>

\* Weekly points with the counts c, at the model's dates.
Weeks(c) ==
    [i \in 1..Len(c) |->
        WeeklyPoint(<<"2024-01-01", "2024-01-02T08:00:00Z", "2024-01-03",
                      "2024-01-05">>[((i - 1) % 4) + 1], c[i])]

\* Job postings with the days open d.
Jobs(d) == [i \in 1..Len(d) |-> JobAggregate("Caregiver", "Ana", 12, d[i])]

\* Snapshots that differ in the application records' stages and owners.
FunnelSnapshots ==
    {Snapshot(d, SomeStatuses, SomeWeeks, SomeJobs) :
        d \in SeqsUpTo(StagedRecords, MaxApplications)}

\* Snapshots that differ in the application records' dates.
DatedSnapshots ==
    {Snapshot(d, SomeStatuses, SomeWeeks, SomeJobs) :
        d \in SeqsUpTo(DatedRecords, MaxApplications)}

\* Snapshots that differ in the status aggregates.
PipelineSnapshots ==
    {Snapshot(SomeDetails, s, SomeWeeks, SomeJobs) : s \in StatusLists}

\* Snapshots that differ in the weekly series.
WeeklySnapshots ==
    {Snapshot(SomeDetails, SomeStatuses, Weeks(c), SomeJobs) :
        c \in SeqsUpTo({0, 1, 4, 5, 10}, MaxWeeks)}

\* Snapshots that differ in what each of the four alert rules reads.
AlertSnapshots ==
    {Snapshot(d, s, Weeks(c), Jobs(j)) :
        d \in {<< >>,
               <<Application("Ana", "", Null, Null, "2024-01-05", Null)>>,
               <<Application("Ana", "", Null, Null, "2024-01-05", Null),
                 Application("Ben", Null, Null, Null, Null, "2024-01-05")>>,
               <<Application("Ben", Null, Null, Null, Null, "2024-01-05")>>},
        s \in {<< >>,
               <<StatusAggregate("New", 2), StatusAggregate("Sent Documents", 1)>>,
               <<StatusAggregate("New", 3), StatusAggregate("Sent Documents", 2)>>,
               <<StatusAggregate("Documents Signed", 2), StatusAggregate("Hired", 1),
                 StatusAggregate("Sent Documents", 1), StatusAggregate("New", 3)>>},
        c \in {<< >>, <<10>>, <<10, 5>>, <<10, 4>>, <<4, 10, 4>>},
        j \in SeqsUpTo({10, 300, 301}, MaxJobs)}

(***************************************************************************)
(* loadData                                                                *)
(***************************************************************************)

VARIABLES
    pc,              \* where loadData stands
    file,            \* the snapshot recruitment_data.json holds
    dashboardData,   \* the global
    alerts,          \* what identifyCriticalIssues returned
    funnel,          \* what calculateConversionFunnel returned to updateKeyMetrics
    timeMetrics,     \* what calculateTimeMetrics returned
    pipeline,        \* what calculatePipelineBreakdown returned to updatePipelineBreakdown
    recruiterStats,  \* what calculateRecruiterPerformance returned
    dom,             \* the content of the page's elements
    showErrorCalls   \* the calls of showError

vars == <<pc, file, dashboardData, alerts, funnel, timeMetrics, pipeline,
          recruiterStats, dom, showErrorCalls>>

computed == <<alerts, funnel, timeMetrics, pipeline, recruiterStats>>

\* let dashboardData = null
NullData == [null |-> TRUE]

EmptyPage ==
    [dateRange |-> "", alertsSection |-> << >>, keyMetrics |-> << >>,
     charts |-> << >>, pipelineGrid |-> << >>, jobPerformanceTable |-> << >>,
     recruiterPerformanceTable |-> << >>, lastUpdated |-> ""]

InitWith(files) ==
    /\ file \in files
    /\ pc = "idle"
    /\ dashboardData = NullData
    /\ alerts = << >>
    /\ funnel = << >>
    /\ timeMetrics = << >>
    /\ pipeline = << >>
    /\ recruiterStats = << >>
    /\ dom = EmptyPage
    /\ showErrorCalls = 0

\* document.addEventListener('DOMContentLoaded', loadData): loadData starts
\* and awaits fetch.
DOMContentLoaded ==
    /\ pc = "idle"
    /\ pc' = "fetch"
    /\ UNCHANGED <<file, dashboardData, computed, dom, showErrorCalls>>

\* The fetch resolves: loadData awaits response.json().
FetchResolved ==
    /\ pc = "fetch"
    /\ pc' = "json"
    /\ UNCHANGED <<file, dashboardData, computed, dom, showErrorCalls>>

\* The catch block of loadData.
Catch ==
    /\ dom' = [dom EXCEPT !.alertsSection =
                  showError("Failed to load recruitment data. Please check the data file.")]
    /\ showErrorCalls' = showErrorCalls + 1
    /\ pc' = "failed"

FetchRejected ==
    /\ pc = "fetch"
    /\ Catch
    /\ UNCHANGED <<file, dashboardData, computed>>

\* response.json() rejects, with dashboardData assigned all the same.
JsonRejectedAssigned ==
    /\ pc = "json"
    /\ Catch
    /\ dashboardData' = file
    /\ UNCHANGED <<file, computed>>

\* response.json() rejects: the catch block runs.
JsonRejected ==
    /\ pc = "json"
    /\ Catch
    /\ UNCHANGED <<file, dashboardData, computed>>

\* The steps of initializeDashboard on the snapshot dd just assigned to
\* dashboardData, in their order; renderStatusChart sorts
\* dashboardData.applicantsByStatus in place.
initializeDashboard(dd) ==
    LET sorted == [dd EXCEPT !.applicantsByStatus = Sort(dd.applicantsByStatus)]
    IN  /\ alerts' = identifyCriticalIssues(dd)
        /\ funnel' = calculateConversionFunnel(dd)
        /\ timeMetrics' = calculateTimeMetrics(dd)
        /\ dashboardData' = sorted
        /\ pipeline' = calculatePipelineBreakdown(sorted)
        /\ recruiterStats' = calculateRecruiterPerformance(sorted)
        /\ dom' =
             [dateRange     |-> updateHeader(dd),
              alertsSection |-> displayCriticalAlerts(alerts'),
              keyMetrics    |-> updateKeyMetrics(funnel', timeMetrics'),
              charts        |->
                  [weeklyTrendChart |-> renderWeeklyTrendChart(dd),
                   funnelChart      |-> renderFunnelChart(dd),
                   statusChart      |-> renderStatusChart(sorted.applicantsByStatus),
                   jobTypeChart     |-> renderJobTypeChart(sorted)],
              pipelineGrid  |-> updatePipelineBreakdown(pipeline'),
              jobPerformanceTable |-> populateJobPerformanceTable(sorted),
              recruiterPerformanceTable |->
                  populateRecruiterPerformanceTable(sorted, recruiterStats'),
              lastUpdated   |-> "now"]

\* response.json() resolves: dashboardData is assigned and
\* initializeDashboard runs to its end.
JsonResolved ==
    /\ pc = "json"
    /\ initializeDashboard(file)
    /\ pc' = "done"
    /\ UNCHANGED <<file, showErrorCalls>>

Next ==
    \/ DOMContentLoaded
    \/ FetchResolved
    \/ FetchRejected
    \/ JsonResolved
    \/ JsonRejected

\* Every alert rule's input varies.
Spec == InitWith(AlertSnapshots) /\ [][Next]_vars

SpecFunnel == InitWith(FunnelSnapshots) /\ [][Next]_vars

SpecDays == InitWith(DatedSnapshots) /\ [][Next]_vars

SpecPipeline == InitWith(PipelineSnapshots) /\ [][Next]_vars

SpecWeekly == InitWith(WeeklySnapshots) /\ [][Next]_vars

(***************************************************************************)
(* Properties                                                              *)
(***************************************************************************)

\* The indices of the records of s whose field f is present.
Present(s, f) == {i \in 1..Len(s) : s[i][f] # Null /\ s[i][f] # ""}

\* t occurs in the string s.
Contains(s, t) ==
    \E i \in 1..(Len(s) - Len(t) + 1) : SubSeq(s, i, i + Len(t) - 1) = t

RECURSIVE SetSum(_, _)
SetSum(f, S) ==
    IF S = {} THEN 0
    ELSE LET x == CHOOSE y \in S : TRUE IN f[x] + SetSum(f, S \ {x})

\* C1: calculateConversionFunnel on an empty application-record collection
\* returns viewedRate, interviewRate, offerRate and hireRate all equal to 0.
C1_EmptyFunnelRatesZero ==
    (pc = "done" /\ Len(file.applicationDetails) = 0) =>
        /\ funnel.viewedRate = Zero
        /\ funnel.interviewRate = Zero
        /\ funnel.offerRate = Zero
        /\ funnel.hireRate = Zero

\* C5: when the records give offered > 0 and hired = 0, identifyCriticalIssues
\* returns exactly one CRITICAL alert and its message holds the offered
\* count; when hired > 0 or offered = 0 it returns no CRITICAL alert.
C5_ZeroHiresAlert ==
    pc = "done" =>
        LET offered  == Cardinality(Present(file.applicationDetails, "Offer Date"))
            hired    == Cardinality(Present(file.applicationDetails, "Hire Date"))
            critical == {i \in 1..Len(alerts) : alerts[i].severity = "CRITICAL"}
        IN  IF offered > 0 /\ hired = 0
            THEN /\ Cardinality(critical) = 1
                 /\ \A i \in critical :
                        Contains(alerts[i].message, ToString(offered) \o " offers")
            ELSE critical = {}

\* Three offers and no hire: the one CRITICAL alert, with "3" in its message.
C5_Witness ==
    /\ pc = "done"
    /\ Cardinality(Present(file.applicationDetails, "Offer Date")) = 3
    /\ Present(file.applicationDetails, "Hire Date") = {}
    /\ Len(alerts) >= 1
    /\ alerts[1].severity = "CRITICAL"
    /\ Contains(alerts[1].message, "3")

\* C8: calculateRecruiterPerformance returns one entry per Job Owner
\* occurring in the records and no other; an entry's applications is the
\* number of the owner's records (at least 1, and Len(records) in all), its
\* viewed, interviewed and offered the numbers of those with the field
\* present, each rate count / applications * 100; one of two records viewed
\* gives viewRate 50.
C8_RecruiterPerformance ==
    pc = "done" =>
        LET d      == file.applicationDetails
            owners == {d[i]["Job Owner"] : i \in 1..Len(d)}
            of(o)  == {i \in 1..Len(d) : d[i]["Job Owner"] = o}
        IN  /\ DOMAIN recruiterStats = owners
            /\ SetSum([o \in owners |-> recruiterStats[o].applications], owners) = Len(d)
            /\ \A o \in owners :
                 LET s == recruiterStats[o]
                     n == Cardinality(of(o))
                 IN  /\ s.applications = n
                     /\ n >= 1
                     /\ s.viewed = Cardinality(of(o) \cap Present(d, "Viewed By"))
                     /\ s.interviewed = Cardinality(of(o) \cap Present(d, "Interview Date"))
                     /\ s.offered = Cardinality(of(o) \cap Present(d, "Offer Date"))
                     /\ s.viewRate = Mul(Div(FromInt(s.viewed), FromInt(n)), FromInt(100))
                     /\ s.interviewRate
                          = Mul(Div(FromInt(s.interviewed), FromInt(n)), FromInt(100))
                     /\ s.offerRate = Mul(Div(FromInt(s.offered), FromInt(n)), FromInt(100))
                     /\ (n = 2 /\ s.viewed = 1) => s.viewRate = FromInt(50)

\* Two owners, one of them with two records of which one is viewed.
C8_Witness ==
    /\ pc = "done"
    /\ Cardinality(DOMAIN recruiterStats) = 2
    /\ \E o \in DOMAIN recruiterStats :
          /\ recruiterStats[o].applications = 2
          /\ recruiterStats[o].viewed = 1
          /\ recruiterStats[o].viewRate = FromInt(50)

\* The labels of the lookup table.
Listed == UNION {statusCategories[key] : key \in DOMAIN statusCategories}

\* The applicants of the status aggregates of s whose label is in labels.
ApplicantsIn(s, labels) ==
    SetSum([i \in 1..Len(s) |-> s[i]["Applicants"]],
           {i \in 1..Len(s) : s[i]["Application State"] \in labels})

ApplicantsOfAll(s) == SetSum([i \in 1..Len(s) |-> s[i]["Applicants"]], 1..Len(s))

\* The snapshot dd with one more status aggregate, of a label no category lists.
WithUnlisted(dd, n) ==
    [dd EXCEPT !.applicantsByStatus = Append(@, StatusAggregate("Withdrawn", n))]

\* count / total * 100 as the code computes it (0 / 0 is NaN).
PercentOf(count, total) == Mul(Div(FromInt(count), FromInt(total)), FromInt(100))

C3_ZeroTotalAllZero ==
    (pc = "done" /\ ApplicantsOfAll(file.applicantsByStatus) = 0) =>
        \A key \in {"earlyStage", "activeEngagement", "advancedStage", "closed"} :
            /\ pipeline[key].count = 0
            /\ pipeline[key].percentage = Zero

CategoryCounts == SetSum([key \in DOMAIN pipeline |-> pipeline[key].count], DOMAIN pipeline)

\* C9 as stated: the four category counts sum to at most the grand total of
\* all status aggregates, and to it exactly iff every label is listed.
C9_EqualIffAllListed ==
    pc = "done" =>
        LET s == file.applicantsByStatus
        IN  /\ CategoryCounts <= ApplicantsOfAll(s)
            /\ CategoryCounts = ApplicantsOfAll(s)
                 <=> \A i \in 1..Len(s) : s[i]["Application State"] \in Listed

\* C9, amended: the four category counts sum to at most the grand total of
\* all status aggregates, and to it exactly iff every entry of an unlisted
\* label has 0 applicants.
C9_EqualIffUnlistedEmpty ==
    pc = "done" =>
        LET s == file.applicantsByStatus
        IN  /\ CategoryCounts <= ApplicantsOfAll(s)
            /\ CategoryCounts = ApplicantsOfAll(s)
                 <=> \A i \in 1..Len(s) :
                        s[i]["Application State"] \notin Listed => s[i]["Applicants"] = 0

\* Listed labels with applicants and an unlisted one with none: the counts
\* sum to the grand total.
C9_Witness ==
    /\ pc = "done"
    /\ CategoryCounts > 0
    /\ CategoryCounts = ApplicantsOfAll(file.applicantsByStatus)
    /\ \E i \in 1..Len(file.applicantsByStatus) :
          file.applicantsByStatus[i]["Application State"] \notin Listed

\* C10: after initializeDashboard has run all its steps, each of the four
\* collections of dashboardData holds the records it held after loading, in
\* the same order.
C10_DatasetUnchanged ==
    pc = "done" =>
        /\ dashboardData.applicationDetails = file.applicationDetails
        /\ dashboardData.applicantsByStatus = file.applicantsByStatus
        /\ dashboardData.applicationsOverTime = file.applicationsOverTime
        /\ dashboardData.byTeamJob = file.byTeamJob

\* Whether an alert of this title is among the alerts.
Alerted(title) == \E i \in 1..Len(alerts) : alerts[i].title = title

WeeklyCount(i) == file.applicationsOverTime[i]["CountDistinct of APPLICANT_ID"]

\* The four rules' conditions on the snapshot loaded.
ZeroHiresHolds ==
    /\ Present(file.applicationDetails, "Offer Date") # {}
    /\ Present(file.applicationDetails, "Hire Date") = {}

BottleneckHolds ==
    LET s == file.applicantsByStatus
    IN  Less(FromInt(40),
             PercentOf(ApplicantsIn(s, {"Sent Documents", "Documents Signed"}),
                       ApplicantsOfAll(s)))

VolumeDeclineHolds ==
    LET n == Len(file.applicationsOverTime)
    IN  n >= 2 /\ 2 * WeeklyCount(n) < WeeklyCount(n - 1)

StalePostingsHolds ==
    \E i \in 1..Len(file.byTeamJob) : file.byTeamJob[i]["Days Open"] > 300

\* C4: the alerts identifyCriticalIssues returns are exactly those of the
\* rules whose condition holds, each once, in the order zero-hires,
\* bottleneck, volume-decline, stale-postings with the severities CRITICAL,
\* HIGH, MEDIUM, MEDIUM; they are none exactly when no condition holds, and
\* then the alerts section shows "All Clear".
C4_AlertsOfTheRulesThatHold ==
    pc = "done" =>
        LET one(holds, severity, title) ==
                IF holds THEN <<<<severity, title>>>> ELSE << >>
            expected ==
                one(ZeroHiresHolds, "CRITICAL", "Zero Hires from Offers")
                  \o one(BottleneckHolds, "HIGH", "Pipeline Bottleneck Detected")
                  \o one(VolumeDeclineHolds, "MEDIUM", "Application Volume Decline")
                  \o one(StalePostingsHolds, "MEDIUM", "Stale Job Postings")
        IN  /\ Len(alerts) = Len(expected)
            /\ \A i \in 1..Len(alerts) :
                  <<alerts[i].severity, alerts[i].title>> = expected[i]
            /\ Len(alerts) = 0
                 <=> ~(ZeroHiresHolds \/ BottleneckHolds \/ VolumeDeclineHolds
                         \/ StalePostingsHolds)
            /\ Len(alerts) = 0 <=> dom.alertsSection[1].title = "All Clear"
            /\ Len(alerts) > 0 => Len(dom.alertsSection) = Len(alerts)

\* All four conditions hold: four alerts, the two MEDIUM ones last.
C4_Witness ==
    /\ pc = "done"
    /\ ZeroHiresHolds /\ BottleneckHolds /\ VolumeDeclineHolds /\ StalePostingsHolds
    /\ Len(alerts) = 4
    /\ alerts[1].severity = "CRITICAL"
    /\ alerts[4].title = "Stale Job Postings"

\* C6: the volume-decline alert fires iff the weekly series has at least 2
\* points and the last count is strictly less than half of the one before:
\* not for [10, 5], for [10, 4], never for 0 or 1 points, whatever the
\* points before the last two.
C6_VolumeDecline ==
    pc = "done" =>
        LET n == Len(file.applicationsOverTime)
        IN  /\ Alerted("Application Volume Decline") <=> VolumeDeclineHolds
            /\ n < 2 => ~Alerted("Application Volume Decline")
            /\ (n >= 2 /\ WeeklyCount(n - 1) = 10 /\ WeeklyCount(n) = 5)
                 => ~Alerted("Application Volume Decline")
            /\ (n >= 2 /\ WeeklyCount(n - 1) = 10 /\ WeeklyCount(n) = 4)
                 => Alerted("Application Volume Decline")

\* Three points, the last two 10 and 4: the alert, with both counts.
C6_Witness ==
    /\ pc = "done"
    /\ Len(file.applicationsOverTime) = 3
    /\ WeeklyCount(2) = 10
    /\ WeeklyCount(3) = 4
    /\ \E i \in 1..Len(alerts) :
          /\ alerts[i].title = "Application Volume Decline"
          /\ Contains(alerts[i].message, "shows 4 application(s), down from 10.")

\* The days from field a to field b of a record.
DaysBetween(record, a, b) ==
    Div(FromInt(DateMs[record[b]] - DateMs[record[a]]), FromInt(MsPerDay))

\* The sum of the days from a to b over the records of d with an index in
\* valid that is at most n.
RECURSIVE SumOfDays(_, _, _, _, _)
SumOfDays(d, a, b, valid, n) ==
    IF n = 0 THEN Zero
    ELSE IF n \in valid
         THEN Add(SumOfDays(d, a, b, valid, n - 1), DaysBetween(d[n], a, b))
         ELSE SumOfDays(d, a, b, valid, n - 1)

\* The mean of the days from a to b over the records that have both, or 0.
MeanOfDays(d, a, b) ==
    LET valid == Present(d, a) \cap Present(d, b)
    IN  IF valid = {} THEN Zero
        ELSE Div(SumOfDays(d, a, b, valid, Len(d)), FromInt(Cardinality(valid)))

\* The field pairs calculateTimeMetrics averages.
FieldPairs ==
    [appToView        |-> <<"Application Date", "Viewed Date">>,
     viewToInterview  |-> <<"Viewed Date", "Interview Date">>,
     interviewToOffer |-> <<"Interview Date", "Offer Date">>,
     appToOffer       |-> <<"Application Date", "Offer Date">>]

\* d without its i-th element.
Without(d, i) == SubSeq(d, 1, i - 1) \o SubSeq(d, i + 1, Len(d))

\* C7: calculateAverageDays returns the mean of end - start in days over the
\* records that have both fields, 0 when none has; a record without one of
\* them, added or removed, changes nothing (an application of 2024-01-01
\* offered on 2024-01-05, beside one with no offer, gives 4 days).
C7_AverageOverRecordsWithBoth ==
    pc = "done" =>
        LET d == file.applicationDetails
        IN  \A m \in DOMAIN FieldPairs :
              LET a     == FieldPairs[m][1]
                  b     == FieldPairs[m][2]
                  valid == Present(d, a) \cap Present(d, b)
              IN  /\ timeMetrics[m] = MeanOfDays(d, a, b)
                  /\ valid = {} => timeMetrics[m] = Zero
                  /\ (\A i \in valid : DateMs[d[i][b]] - DateMs[d[i][a]] = 4 * MsPerDay)
                       => timeMetrics[m] \in {Zero, FromInt(4)}
                  /\ \A r \in DatedRecords :
                       ~(Truthy(r[a]) /\ Truthy(r[b]))
                         => calculateAverageDays(Append(d, r), a, b) = timeMetrics[m]
                  /\ \A i \in (1..Len(d)) \ valid :
                       calculateAverageDays(Without(d, i), a, b) = timeMetrics[m]

\* The application offered after 4 days, then one with no offer: 4 days.
C7_Witness ==
    /\ pc = "done"
    /\ Len(file.applicationDetails) = 2
    /\ file.applicationDetails[1]["Application Date"] = "2024-01-01"
    /\ file.applicationDetails[1]["Offer Date"] = "2024-01-05"
    /\ file.applicationDetails[2]["Application Date"] = "2024-01-01"
    /\ file.applicationDetails[2]["Offer Date"] = Null
    /\ timeMetrics.appToOffer = FromInt(4)

\* initializeDashboard has run: updateFooter, its last step, has written.
Initialized == dom.lastUpdated # ""

\* The message loadData passes to showError.
LoadFailure == "Failed to load recruitment data. Please check the data file."

\* What the state holds once initializeDashboard has run: dashboardData is
\* the parsed snapshot (its statuses in the order renderStatusChart leaves),
\* every computed value is the one of that snapshot, showError was not called.
RanOnSnapshot ==
    /\ pc = "done"
    /\ dashboardData # NullData
    /\ dashboardData = [file EXCEPT !.applicantsByStatus = Sort(file.applicantsByStatus)]
    /\ alerts = identifyCriticalIssues(file)
    /\ funnel = calculateConversionFunnel(file)
    /\ timeMetrics = calculateTimeMetrics(file)
    /\ pipeline = calculatePipelineBreakdown(file)
    /\ recruiterStats = calculateRecruiterPerformance(file)
    /\ showErrorCalls = 0

\* What the state holds once the fetch or the parsing has failed:
\* initializeDashboard has not run and nothing is computed, dashboardData is
\* still null, showError was called once with loadData's message.
FailedOnce ==
    /\ ~Initialized
    /\ computed = <<<< >>, << >>, << >>, << >>, << >>>>
    /\ dashboardData = NullData
    /\ showErrorCalls = 1
    /\ dom = [EmptyPage EXCEPT !.alertsSection = showError(LoadFailure)]

\* A step that assigns dashboardData or runs initializeDashboard is the one
\* step after the parsing, does both, and starts from null.
AssignedThenInitialized ==
    (dashboardData' # dashboardData \/ (Initialized' /\ ~Initialized))
       => (pc = "json" /\ pc' = "done" /\ dashboardData = NullData
             /\ dashboardData' # NullData /\ Initialized')

\* A step into the failure is one from the fetch or the parsing, leaves
\* dashboardData and the computed values alone, and calls showError once.
FailureStep ==
    (pc' = "failed" /\ pc # "failed")
       => (pc \in {"fetch", "json"} /\ dashboardData' = dashboardData
             /\ computed' = computed /\ showErrorCalls' = showErrorCalls + 1)

\* loadData has returned: nothing changes any more.
Returned == pc \in {"done", "failed"} => vars' = vars

\* C11: in every execution of loadData, initializeDashboard runs only after
\* dashboardData has been assigned the parsed snapshot (it is assigned in
\* the step in which initializeDashboard runs, and in no other); if the
\* fetch or the JSON parsing fails, initializeDashboard is never invoked,
\* dashboardData keeps its previous value, null, and showError is called
\* exactly once.
C11_LoadDataOrder ==
    /\ [](Initialized => RanOnSnapshot)
    /\ [](pc = "failed" => FailedOnce)
    /\ [](pc # "failed" => showErrorCalls = 0)
    /\ [](pc \in {"idle", "fetch", "json"} => (~Initialized /\ dashboardData = NullData))
    /\ [][AssignedThenInitialized]_vars
    /\ [][FailureStep]_vars
    /\ [][Returned]_vars

\* The load failed: one showError call, dashboardData null, nothing computed.
C11_Witness ==
    /\ pc = "failed"
    /\ showErrorCalls = 1
    /\ dashboardData = NullData
    /\ ~Initialized
    /\ dom.alertsSection = showError(LoadFailure)

=============================================================================
